---- MODULE Spec2Model ----
(***************************************************************************)
(* A state-machine model of scripts/claude_headless.py: the launcher that *)
(* runs the claude CLI synchronously under script(1), detached in the     *)
(* background with a log file, or interactively inside a tmux session.    *)
(*                                                                         *)
(* Strings are sequences of one-character strings.  Time inside           *)
(* tmux_wait_for_text is counted in ticks of one poll interval (0.5 s).   *)
(***************************************************************************)
EXTENDS Integers, Sequences, FiniteSets, TLC

(* ------------------------------ bounds -------------------------------- *)

\* longest prompt enumerated exhaustively by the mode-selection harness
MaxPromptLen == 3
\* longest duration of one tmux capture-pane call, in ticks
MaxCapture == 2
\* latest reading of time.time() at the entry of a polling loop, in ticks
MaxStart == 1
\* most cells of output a background child writes to its log
MaxOut == 1

(* ------------------------- program constants -------------------------- *)

\* poll_s = 0.5: one tick is one poll interval, so a second is two ticks
TicksPerSecond == 2
PollTicks == 1
\* tmux_wait_for_text(..., timeout_s=20) and (..., timeout_s=2)
TrustTimeout == 20 * TicksPerSecond
RetryTimeout == 2 * TicksPerSecond
\* exit status of a precondition failure, and of an uncaught exception
ExitPrecondition == 2
ExitUncaught == 1

(* ------------------------------ strings ------------------------------- *)

None == <<"None">>
NL == "\n"
Alphabet == {"/", "a", " ", NL}

RECURSIVE StringsOfLen(_)
StringsOfLen(n) ==
    IF n = 0 THEN {<<>>}
    ELSE {Append(s, c) : s \in StringsOfLen(n - 1), c \in Alphabet}

Strings(n) == UNION {StringsOfLen(k) : k \in 0..n}

IsSpace(c) == c \in {" ", NL}

\* index of the first line break of s, 0 if there is none
FirstBreak(s) ==
    IF \E i \in 1..Len(s) : s[i] = NL
    THEN CHOOSE i \in 1..Len(s) : s[i] = NL /\ \A j \in 1..(i - 1) : s[j] # NL
    ELSE 0

\* str.splitlines(): a final line break opens no empty last line
RECURSIVE splitlines(_)
splitlines(s) ==
    IF s = <<>> THEN <<>>
    ELSE LET i == FirstBreak(s)
         IN IF i = 0 THEN <<s>>
            ELSE <<SubSeq(s, 1, i - 1)>> \o splitlines(SubSeq(s, i + 1, Len(s)))

RECURSIVE lstrip(_)
lstrip(s) ==
    IF s # <<>> /\ IsSpace(Head(s)) THEN lstrip(Tail(s)) ELSE s

RECURSIVE rstrip(_)
rstrip(s) ==
    IF s # <<>> /\ IsSpace(s[Len(s)]) THEN rstrip(SubSeq(s, 1, Len(s) - 1)) ELSE s

\* str.strip()
strip(s) == rstrip(lstrip(s))

startswith(s, c) == s # <<>> /\ Head(s) = c

\* the same test with the strip() forgotten
looks_like_slash_commands_nostrip(prompt) ==
    IF prompt = None \/ prompt = <<>> THEN FALSE
    ELSE \E k \in 1..Len(splitlines(prompt)) :
            startswith(splitlines(prompt)[k], "/")

looks_like_slash_commands(prompt) ==
    IF prompt = None \/ prompt = <<>> THEN FALSE
    ELSE \E k \in 1..Len(splitlines(prompt)) :
            startswith(strip(splitlines(prompt)[k]), "/")

\* the non-blank lines run_interactive_tmux sends
SelectNonBlank(lines) == SelectSeq(lines, LAMBDA ln : strip(ln) # <<>>)

\* the lines with the blank ones kept
prompt_lines_with_blanks(prompt) ==
    IF prompt = None \/ prompt = <<>> THEN <<>>
    ELSE splitlines(prompt)

\* lines 262-263: nothing for an absent or empty prompt
prompt_lines(prompt) ==
    IF prompt = None \/ prompt = <<>> THEN <<>>
    ELSE SelectNonBlank(splitlines(prompt))

(* ------------------------------ commands ------------------------------ *)

\* one word of a command line, as a string of the model
W(word) == <<word>>

\* build_headless_cmd, with the flags that vary in the model
build_headless_cmd(bin, prompt) ==
    <<bin>> \o (IF prompt # None THEN <<W("-p"), prompt>> ELSE <<>>)

\* the BSD script(1) prefix
wrap_with_script(script, cmd) == <<script, W("-q"), W("/dev/null")>> \o cmd

(* ------------------------------- state -------------------------------- *)

VARIABLES
    args,          \* the parsed command line (argparse.Namespace)
    pc,            \* position of the launcher in main and its callees
    mode,          \* main's local "mode"
    claude_bin,    \* args.claude_bin after resolution
    lookup,        \* what the searches for claude and for tmux found
    executor,      \* the branch main dispatched to
    ran,           \* the executors whose body has started
    cmd,           \* build_headless_cmd(args)
    full_cmd,      \* the command vector handed to subprocess
    script_bin,    \* which("script") as the runner saw it
    child,         \* the synchronous child: "none", "running", "exited"
    child_rc,      \* proc.returncode of the synchronous child
    rc,            \* main's local "rc"
    exit_code,     \* exit status of the invocation, -1 while it runs
    err,           \* diagnostics written to sys.stderr
    out,           \* what the launcher printed to sys.stdout
    clipboard,     \* texts handed to pbcopy
    notifications, \* desktop notifications delivered
    log_dir,       \* TRUE once the log directory exists
    files,         \* log files: name -> cells of content
    log_file,      \* run_background's local "log_file"
    procs,         \* background children, by pid
    watchers,      \* completion watchers, by pid of the child watched
    clock,         \* wall clock, in seconds
    opened,        \* history: the log files opened, with launch and timestamp
    invocations,   \* launcher invocations so far
    session,       \* the tmux session of the configured name
    killed,        \* what kill-session found
    keys,          \* keystrokes injected into the pane
    deadline,      \* tmux_wait_for_text's local "deadline"
    now,           \* the time inside tmux_wait_for_text, in ticks
    wait,          \* the call of tmux_wait_for_text: which, entered when, result
    line_idx,      \* index of the next prompt line to send
    sent,          \* history: the send-keys commands issued, delivered or not
    polls,         \* history: the results tmux_wait_for_text returned
    slept          \* history: the inter-line delays that have elapsed

mainVars == <<args, mode, claude_bin, executor, ran, cmd, lookup, invocations>>
syncVars == <<full_cmd, script_bin, child, child_rc, clipboard>>
ioVars   == <<rc, exit_code, err, out, notifications>>
bgVars   == <<log_dir, files, log_file, procs, watchers, clock, opened>>
tmuxVars == <<session, killed, keys, deadline, now, wait, line_idx, sent, polls,
              slept>>
vars     == <<pc, mainVars, syncVars, ioVars, bgVars, tmuxVars>>

(* ------------------------------- inputs ------------------------------- *)

\* prompts of the full-program specifications: absent, empty, plain, a slash
\* command, an indented slash command, lines with a blank line between them
SamplePrompts ==
    { None, <<>>, <<"a">>, <<"/", "a">>, <<" ", "/">>,
      <<"a", NL, " ", NL, "/">> }

ModeFlags == {"auto", "headless", "interactive"}

\* exit statuses a child may end with
ChildExitCodes == {0, 1, 2}

ArgsOver(prompts) ==
    [ prompt : prompts, mode : ModeFlags, background : BOOLEAN,
      clipboard : BOOLEAN, notify : BOOLEAN, interactive_wait_s : {0, 1} ]

\* DEFAULT_CLAUDE, the path which("claude") finds, and the helper's path
GivenClaude == W("~/.local/bin/claude")
FoundClaude == W("/usr/local/bin/claude")
ScriptPath  == W("/usr/bin/script")
Unknown     == W("?")
NotFound    == W("not found")

NoFile == <<>>
NoWait == [call |-> 0, entry |-> 0, result |-> FALSE]

\* the state of one invocation before main runs, for the parsed arguments a
InvocationStart(a) ==
    /\ args = a
    /\ pc = "resolve"
    /\ mode = "unset"
    /\ claude_bin = GivenClaude
    /\ lookup = [claude |-> "?", tmux |-> "?"]
    /\ executor = "none"
    /\ ran = {}
    /\ cmd = <<>>
    /\ full_cmd = <<>>
    /\ script_bin = Unknown
    /\ child = "none"
    /\ child_rc = -1
    /\ rc = -1
    /\ exit_code = -1
    /\ err = <<>>
    /\ out = <<>>
    /\ clipboard = <<>>
    /\ log_file = NoFile
    /\ session = "unknown"
    /\ killed = "n/a"
    /\ keys = <<>>
    /\ deadline = 0
    /\ now = 0
    /\ wait = NoWait
    /\ line_idx = 1
    /\ sent = <<>>
    /\ polls = <<>>
    /\ slept = 0

\* what outlives an invocation: nothing has been launched or logged yet
EnvironmentStart ==
    /\ notifications = <<>>
    /\ log_dir = FALSE
    /\ files = <<>>
    /\ procs = <<>>
    /\ watchers = <<>>
    /\ clock = 0
    /\ opened = <<>>
    /\ invocations = 1

Init == EnvironmentStart /\ \E a \in ArgsOver(SamplePrompts) : InvocationStart(a)

(* -------------------------------- main -------------------------------- *)

\* an uncaught exception: traceback on stderr, exit status 1
Raise(why) ==
    /\ pc' = "crashed"
    /\ exit_code' = ExitUncaught
    /\ err' = Append(err, why)
    /\ UNCHANGED <<rc, out, notifications>>

\* a resolution that goes on without the binary
ResolveBinaryUnchecked ==
    /\ pc = "resolve"
    /\ UNCHANGED ioVars
    /\ \E exists \in BOOLEAN, found \in BOOLEAN :
         /\ lookup' = [lookup EXCEPT !.claude =
                         IF exists THEN "at the path"
                         ELSE IF found THEN "on the PATH" ELSE "missing"]
         /\ claude_bin' = IF ~exists /\ found THEN FoundClaude ELSE claude_bin
    /\ pc' = "mode"
    /\ UNCHANGED <<args, mode, executor, ran, cmd, invocations>>
    /\ UNCHANGED <<syncVars, ioVars, bgVars, tmuxVars>>

\* lines 391-400: the configured path, else which("claude"), else exit 2
ResolveBinary ==
    /\ pc = "resolve"
    /\ \E exists \in BOOLEAN, found \in BOOLEAN :
         IF exists
         THEN /\ lookup' = [lookup EXCEPT !.claude = "at the path"]
              /\ pc' = "mode"
              /\ UNCHANGED <<claude_bin, ioVars>>
         ELSE IF found
         THEN /\ lookup' = [lookup EXCEPT !.claude = "on the PATH"]
              /\ claude_bin' = FoundClaude
              /\ pc' = "mode"
              /\ UNCHANGED ioVars
         ELSE /\ lookup' = [lookup EXCEPT !.claude = "missing"]
              /\ err' = Append(err, "Error: claude binary not found")
              /\ exit_code' = ExitPrecondition
              /\ pc' = "exit"
              /\ UNCHANGED <<claude_bin, rc, out, notifications>>
    /\ UNCHANGED <<args, mode, executor, ran, cmd, invocations>>
    /\ UNCHANGED <<syncVars, bgVars, tmuxVars>>

\* a selection that lets the heuristic win over an explicit flag
determine_mode_heuristic_first(flag, prompt) ==
    IF looks_like_slash_commands(prompt) THEN "interactive" ELSE flag

\* lines 403-405: an explicit flag is kept, auto stays auto without a slash
determine_mode(flag, prompt) ==
    IF flag = "auto" /\ looks_like_slash_commands(prompt)
    THEN "interactive"
    ELSE flag

DetermineMode ==
    /\ pc = "mode"
    /\ mode' = determine_mode(args.mode, args.prompt)
    /\ pc' = "dispatch"
    /\ UNCHANGED <<args, claude_bin, executor, ran, cmd, lookup, invocations>>
    /\ UNCHANGED <<syncVars, ioVars, bgVars, tmuxVars>>

\* a dispatch that lets the background flag win over an interactive mode
dispatch_background_first(background, m, clip) ==
    IF background THEN "background"
    ELSE IF m = "interactive" THEN "tmux"
    ELSE IF clip THEN "capture"
    ELSE "pty"

\* lines 407-429: the branch main takes
dispatch(background, m, clip) ==
    IF background /\ m # "interactive" THEN "background"
    ELSE IF m = "interactive" THEN "tmux"
    ELSE IF clip THEN "capture"
    ELSE "pty"

EntryOf(e) ==
    CASE e = "background" -> "bg_makedirs"
      [] e = "tmux"       -> "tmux_which"
      [] e = "capture"    -> "clip_run"
      [] e = "pty"        -> "pty_which"

Dispatch ==
    /\ pc = "dispatch"
    /\ executor' = dispatch(args.background, mode, args.clipboard)
    /\ cmd' = IF executor' = "tmux" THEN cmd
              ELSE build_headless_cmd(claude_bin, args.prompt)
    /\ pc' = EntryOf(executor')
    /\ UNCHANGED <<args, mode, claude_bin, ran, lookup, invocations>>
    /\ UNCHANGED <<syncVars, ioVars, bgVars, tmuxVars>>

\* lines 432-436: the optional notification, then the return of rc
Notify ==
    /\ pc = "notify"
    /\ \E delivered \in BOOLEAN :
         notifications' =
            IF args.notify /\ delivered
            THEN Append(notifications,
                        IF rc = 0 THEN "Headless task completed"
                        ELSE "Headless task failed")
            ELSE notifications
    /\ exit_code' = rc
    /\ pc' = "exit"
    /\ UNCHANGED <<rc, err, out>>
    /\ UNCHANGED <<mainVars, syncVars, bgVars, tmuxVars>>

(* ----------------------- synchronous execution ------------------------ *)

\* run_with_pty, lines 166-173: wrap if which("script") found the helper
pty_command(found, c) ==
    IF found THEN wrap_with_script(ScriptPath, c) ELSE c

\* run_with_pty up to the start of the child (subprocess.run raises if the
\* child cannot be created, for one when cwd does not exist)
RunWithPty ==
    /\ pc = "pty_which"
    /\ ran' = ran \cup {"pty"}
    /\ \E found \in BOOLEAN, launched \in BOOLEAN :
         /\ script_bin' = IF found THEN ScriptPath ELSE NotFound
         /\ IF launched
            THEN /\ full_cmd' = pty_command(found, cmd)
                 /\ child' = "running"
                 /\ pc' = "pty_wait"
                 /\ UNCHANGED ioVars
            ELSE /\ Raise("OSError: child not started")
                 /\ UNCHANGED <<full_cmd, child>>
    /\ UNCHANGED <<args, mode, claude_bin, executor, cmd, lookup, invocations>>
    /\ UNCHANGED <<child_rc, clipboard, bgVars, tmuxVars>>

\* a runner that maps every failure to 1
returncode_flattened(status) == IF status = 0 THEN 0 ELSE 1

\* proc.returncode of a child that exited with the given status
returncode(status) == status

\* subprocess.run returns when the child ends; run_with_pty returns its code
PtyReturn ==
    /\ pc = "pty_wait"
    /\ \E status \in ChildExitCodes :
         /\ child_rc' = status
         /\ rc' = returncode(status)
    /\ child' = "exited"
    /\ pc' = "notify"
    /\ UNCHANGED <<exit_code, err, out, notifications>>
    /\ UNCHANGED <<full_cmd, script_bin, clipboard>>
    /\ UNCHANGED <<mainVars, bgVars, tmuxVars>>

\* line 418: the capture for the clipboard names "script" unconditionally
capture_command(present, c) == wrap_with_script(ScriptPath, c)

\* lines 417-422: subprocess.run raises if "script" is not on the PATH
RunCapture ==
    /\ pc = "clip_run"
    /\ ran' = ran \cup {"capture"}
    /\ \E present \in BOOLEAN, launched \in BOOLEAN :
         /\ script_bin' = IF present THEN ScriptPath ELSE NotFound
         /\ IF present /\ launched
            THEN /\ full_cmd' = capture_command(present, cmd)
                 /\ child' = "running"
                 /\ pc' = "clip_wait"
                 /\ UNCHANGED ioVars
            ELSE /\ Raise(IF present THEN "OSError: child not started"
                          ELSE "FileNotFoundError: script")
                 /\ UNCHANGED <<full_cmd, child>>
    /\ UNCHANGED <<args, mode, claude_bin, executor, cmd, lookup, invocations>>
    /\ UNCHANGED <<child_rc, clipboard, bgVars, tmuxVars>>

\* lines 423-427: print the capture, copy it (pbcopy may fail), keep the code
CaptureReturn ==
    /\ pc = "clip_wait"
    /\ \E status \in ChildExitCodes :
         /\ child_rc' = status
         /\ rc' = returncode(status)
    /\ child' = "exited"
    /\ out' = Append(out, [what |-> "child stdout", pid |-> 0, log |-> NoFile])
    /\ \E copied \in BOOLEAN :
         clipboard' = IF copied THEN Append(clipboard, "child stdout")
                      ELSE clipboard
    /\ pc' = "notify"
    /\ UNCHANGED <<exit_code, err, notifications>>
    /\ UNCHANGED <<full_cmd, script_bin>>
    /\ UNCHANGED <<mainVars, bgVars, tmuxVars>>

(* ------------------------ background execution ------------------------ *)

\* wall-clock readings, in seconds, that a launch may see
TimeSamples == {0, 59, 60}

\* a log name with minute granularity
log_name_minutes(ts) ==
    <<"claude-", ts \div 86400, (ts \div 3600) % 24, (ts \div 60) % 60, 0, ".log">>

\* lines 112-113: claude-<%Y%m%d>-<%H%M%S>.log (the date as a day number)
log_name(ts) ==
    <<"claude-", ts \div 86400, (ts \div 3600) % 24, (ts \div 60) % 60,
      ts % 60, ".log">>

Cell(kind, inv) == [kind |-> kind, inv |-> inv]
Hole == Cell("hole", 0)

\* lines 116-118: the three header lines and the blank line; the Command
\* line is as long as the command it quotes, one cell for each word
header(inv, c) ==
    <<Cell("# Command:", inv)>> \o [i \in 1..Len(c) |-> Cell("word", inv)]
    \o <<Cell("# Started:", inv), Cell("# CWD:", inv), Cell("", inv)>>

\* open(name, "w"): create the file, or truncate it
truncate(fs, name) ==
    [n \in DOMAIN fs \cup {name} |-> IF n = name THEN <<>> ELSE fs[n]]

\* write(2) of cells at an offset, zero-filling a gap past the end
write_at(content, off, cells) ==
    LET len == IF Len(content) > off + Len(cells) THEN Len(content)
               ELSE off + Len(cells)
    IN [i \in 1..len |->
          IF i > off /\ i <= off + Len(cells) THEN cells[i - off]
          ELSE IF i <= Len(content) THEN content[i]
          ELSE Hole]

\* line 111: os.makedirs(log_dir, exist_ok=True)
BgMakedirs ==
    /\ pc = "bg_makedirs"
    /\ ran' = ran \cup {"background"}
    /\ \E ok \in BOOLEAN :
         IF ok
         THEN /\ log_dir' = TRUE
              /\ pc' = "bg_open"
              /\ UNCHANGED ioVars
         ELSE /\ Raise("OSError: makedirs")
              /\ UNCHANGED log_dir
    /\ UNCHANGED <<args, mode, claude_bin, executor, cmd, lookup, invocations>>
    /\ UNCHANGED <<files, log_file, procs, watchers, clock, opened>>
    /\ UNCHANGED <<syncVars, tmuxVars>>

\* lines 112-115: read the clock, name the log, open it for writing
BgOpen ==
    /\ pc = "bg_open"
    /\ \E ts \in {t \in TimeSamples : t >= clock}, ok \in BOOLEAN :
         /\ clock' = ts
         /\ log_file' = log_name(ts)
         /\ IF ok
            THEN /\ files' = truncate(files, log_name(ts))
                 /\ opened' = Append(opened, [inv |-> invocations, ts |-> ts,
                                              name |-> log_name(ts)])
                 /\ pc' = "bg_header"
                 /\ UNCHANGED ioVars
            ELSE /\ Raise("OSError: open")
                 /\ UNCHANGED <<files, opened>>
    /\ UNCHANGED <<log_dir, procs, watchers>>
    /\ UNCHANGED <<mainVars, syncVars, tmuxVars>>

\* lines 116-119: the buffered header reaches the file at the flush
BgHeader ==
    /\ pc = "bg_header"
    /\ files' = [files EXCEPT
                   ![log_file] = write_at(@, 0, header(invocations, cmd))]
    /\ pc' = "bg_popen"
    /\ UNCHANGED <<log_dir, log_file, procs, watchers, clock, opened>>
    /\ UNCHANGED <<mainVars, syncVars, ioVars, tmuxVars>>

\* a child whose descriptor starts at the beginning of the file
NewProcAtStart ==
    [alive |-> TRUE, file |-> log_file, offset |-> 0, written |-> 0,
     status |-> -1, inv |-> invocations]

\* a child that shares the launcher's open file, positioned after the header
NewProc ==
    [alive |-> TRUE, file |-> log_file,
     offset |-> Len(header(invocations, cmd)), written |-> 0,
     status |-> -1, inv |-> invocations]

\* lines 121-134: wrap if the helper is found, create the detached child
BgPopen ==
    /\ pc = "bg_popen"
    /\ \E found \in BOOLEAN, launched \in BOOLEAN :
         /\ script_bin' = IF found THEN ScriptPath ELSE NotFound
         /\ IF launched
            THEN /\ full_cmd' = pty_command(found, cmd)
                 /\ procs' = Append(procs, NewProc)
                 /\ pc' = "bg_print"
                 /\ UNCHANGED ioVars
            ELSE /\ Raise("OSError: child not started")
                 /\ UNCHANGED <<full_cmd, procs>>
    /\ UNCHANGED <<child, child_rc, clipboard>>
    /\ UNCHANGED <<log_dir, files, log_file, watchers, clock, opened>>
    /\ UNCHANGED <<mainVars, tmuxVars>>

\* the pid of the child this invocation created
MyPid == Len(procs)

\* lines 136-140: report the pid and the log path
BgPrint ==
    /\ pc = "bg_print"
    /\ out' = Append(out, [what |-> "Background process started",
                           pid |-> MyPid, log |-> log_file])
    /\ pc' = "bg_watcher"
    /\ UNCHANGED <<rc, exit_code, err, notifications>>
    /\ UNCHANGED <<mainVars, syncVars, bgVars, tmuxVars>>

\* a launcher that waits for its child
may_return_after_child(pid) == ~procs[pid].alive

\* line 157 returns whatever the child does
may_return(pid) == TRUE

\* lines 142-157: start the watcher if asked (Popen raises if bash cannot
\* be started), return 0; main returns it at line 409
BgWatcher ==
    /\ pc = "bg_watcher"
    /\ may_return(MyPid)
    /\ \E started \in BOOLEAN :
         IF ~args.notify
         THEN /\ pc' = "exit"
              /\ exit_code' = 0
              /\ UNCHANGED <<watchers, rc, err, out, notifications>>
         ELSE IF started
         THEN /\ watchers' = Append(watchers, [pid |-> MyPid, state |-> "polling",
                                           fired |-> 0])
              /\ pc' = "exit"
              /\ exit_code' = 0
              /\ UNCHANGED <<rc, err, out, notifications>>
         ELSE /\ Raise("OSError: watcher not started")
              /\ UNCHANGED watchers
    /\ UNCHANGED <<log_dir, files, log_file, procs, clock, opened>>
    /\ UNCHANGED <<mainVars, syncVars, tmuxVars>>

\* a background child writes a cell of output through its descriptor
ProcWrite(p) ==
    /\ procs[p].alive
    /\ procs[p].written < MaxOut
    /\ files' = [files EXCEPT
                   ![procs[p].file] =
                       write_at(@, procs[p].offset, <<Cell("output", procs[p].inv)>>)]
    /\ procs' = [procs EXCEPT ![p].offset = @ + 1, ![p].written = @ + 1]
    /\ UNCHANGED <<log_dir, log_file, watchers, clock, opened>>
    /\ UNCHANGED <<pc, mainVars, syncVars, ioVars, tmuxVars>>

\* a background child ends
ProcExit(p) ==
    /\ procs[p].alive
    /\ \E status \in ChildExitCodes :
         procs' = [procs EXCEPT ![p].alive = FALSE, ![p].status = status]
    /\ UNCHANGED <<log_dir, files, log_file, watchers, clock, opened>>
    /\ UNCHANGED <<pc, mainVars, syncVars, ioVars, tmuxVars>>

\* a watcher that does not look at the child
WatcherPollEager(w) ==
    /\ watchers[w].state = "polling"
    /\ watchers' = [watchers EXCEPT ![w].state = "notifying"]
    /\ UNCHANGED <<log_dir, files, log_file, procs, clock, opened>>
    /\ UNCHANGED <<pc, mainVars, syncVars, ioVars, tmuxVars>>

\* line 145: "while kill -0 pid; do sleep 2; done"
WatcherPoll(w) ==
    /\ watchers[w].state = "polling"
    /\ watchers' = [watchers EXCEPT ![w].state =
                      IF procs[watchers[w].pid].alive THEN "sleeping"
                      ELSE "notifying"]
    /\ UNCHANGED <<log_dir, files, log_file, procs, clock, opened>>
    /\ UNCHANGED <<pc, mainVars, syncVars, ioVars, tmuxVars>>

WatcherSleep(w) ==
    /\ watchers[w].state = "sleeping"
    /\ watchers' = [watchers EXCEPT ![w].state = "polling"]
    /\ UNCHANGED <<log_dir, files, log_file, procs, clock, opened>>
    /\ UNCHANGED <<pc, mainVars, syncVars, ioVars, tmuxVars>>

\* lines 146-147: osascript, whose failure nobody sees
WatcherNotify(w) ==
    /\ watchers[w].state = "notifying"
    /\ watchers' = [watchers EXCEPT ![w].state = "done", ![w].fired = @ + 1]
    /\ \E delivered \in BOOLEAN :
         notifications' =
            IF delivered THEN Append(notifications, "Background task finished")
            ELSE notifications
    /\ UNCHANGED <<rc, exit_code, err, out>>
    /\ UNCHANGED <<log_dir, files, log_file, procs, clock, opened>>
    /\ UNCHANGED <<pc, mainVars, syncVars, tmuxVars>>

(* ------------------------ interactive execution ----------------------- *)

Key(kind, text) == [kind |-> kind, text |-> text]
Enter == Key("key", W("Enter"))

\* line 245: "cd <cwd> && <claude and its flags>"
launch_text == <<"cd . && ">> \o claude_bin

\* a controller that tears the old session down before it looks for tmux
TmuxWhichLate ==
    /\ pc = "tmux_which"
    /\ ran' = ran \cup {"tmux"}
    /\ \E found \in BOOLEAN :
         IF found
         THEN /\ lookup' = [lookup EXCEPT !.tmux = "on the PATH"]
              /\ pc' = "tmux_kill"
              /\ UNCHANGED <<ioVars, tmuxVars>>
         ELSE /\ lookup' = [lookup EXCEPT !.tmux = "missing"]
              /\ err' = Append(err, "Error: tmux not found")
              /\ rc' = ExitPrecondition
              /\ pc' = "notify"
              /\ killed' = "failed"
              /\ UNCHANGED <<exit_code, out, notifications>>
              /\ UNCHANGED <<session, keys, deadline, now, wait, line_idx,
                             sent, polls, slept>>
    /\ UNCHANGED <<args, mode, claude_bin, executor, cmd, invocations>>
    /\ UNCHANGED <<syncVars, bgVars>>

\* line 211: without tmux, a diagnostic and the return of 2
TmuxWhich ==
    /\ pc = "tmux_which"
    /\ ran' = ran \cup {"tmux"}
    /\ \E found \in BOOLEAN :
         IF found
         THEN /\ lookup' = [lookup EXCEPT !.tmux = "on the PATH"]
              /\ pc' = "tmux_kill"
              /\ UNCHANGED ioVars
         ELSE /\ lookup' = [lookup EXCEPT !.tmux = "missing"]
              /\ err' = Append(err, "Error: tmux not found")
              /\ rc' = ExitPrecondition
              /\ pc' = "notify"
              /\ UNCHANGED <<exit_code, out, notifications>>
    /\ UNCHANGED <<args, mode, claude_bin, executor, cmd, invocations>>
    /\ UNCHANGED <<syncVars, bgVars, tmuxVars>>

\* lines 219-223: kill-session, whatever it answers: a session of the name
\* is destroyed, or there is none, or the command fails and the session stays
TmuxKillSession ==
    /\ pc = "tmux_kill"
    /\ \E existed \in BOOLEAN, done \in BOOLEAN :
         /\ killed' = IF ~existed THEN "no such session"
                       ELSE IF done THEN "killed" ELSE "failed"
         /\ session' = IF existed /\ ~done THEN "old" ELSE "absent"
    /\ pc' = "tmux_new"
    /\ UNCHANGED <<keys, deadline, now, wait, line_idx, sent, polls, slept>>
    /\ UNCHANGED <<mainVars, syncVars, ioVars, bgVars>>

\* a creation whose failure is not noticed
TmuxNewSessionUnchecked ==
    /\ pc = "tmux_new"
    /\ \E ok \in BOOLEAN :
         session' = IF ok /\ session = "absent" THEN "fresh" ELSE session
    /\ pc' = "tmux_launch"
    /\ UNCHANGED <<killed, keys, deadline, now, wait, line_idx, sent, polls, slept>>
    /\ UNCHANGED <<mainVars, syncVars, ioVars, bgVars>>

\* line 224: check_call raises when tmux new fails, as it does when a
\* session of the name is still there
TmuxNewSession ==
    /\ pc = "tmux_new"
    /\ \E ok \in BOOLEAN :
         IF ok /\ session = "absent"
         THEN /\ session' = "fresh"
              /\ pc' = "tmux_launch"
              /\ UNCHANGED ioVars
         ELSE /\ Raise("CalledProcessError: tmux new")
              /\ UNCHANGED session
    /\ UNCHANGED <<killed, keys, deadline, now, wait, line_idx, sent, polls, slept>>
    /\ UNCHANGED <<mainVars, syncVars, bgVars>>

\* subprocess.check_call(tmux send-keys ...): the keystroke, or an exception
SendChecked(key, next) ==
    /\ sent' = Append(sent, key)
    /\ \E ok \in BOOLEAN :
         IF ok
         THEN /\ keys' = Append(keys, key)
              /\ pc' = next
              /\ UNCHANGED ioVars
         ELSE /\ Raise("CalledProcessError: tmux send-keys")
              /\ UNCHANGED keys
    /\ UNCHANGED <<mainVars, syncVars, bgVars>>

\* subprocess.run(tmux send-keys ..., check=False): a failure is not seen
SendUnchecked(key, next) ==
    /\ sent' = Append(sent, key)
    /\ \E ok \in BOOLEAN :
         keys' = IF ok THEN Append(keys, key) ELSE keys
    /\ pc' = next
    /\ UNCHANGED <<mainVars, syncVars, ioVars, bgVars>>

\* lines 248-250
TmuxLaunch ==
    /\ pc = "tmux_launch"
    /\ SendChecked(Key("literal", launch_text), "tmux_launch_enter")
    /\ UNCHANGED <<session, killed, deadline, now, wait, line_idx, polls, slept>>

\* a controller that goes from the launch straight to the prompt lines
TmuxLaunchEnterSkippingTrust ==
    /\ pc = "tmux_launch_enter"
    /\ SendChecked(Enter, "send_prompt")
    /\ UNCHANGED <<session, killed, deadline, now, wait, line_idx, polls, slept>>

\* line 251
TmuxLaunchEnter ==
    /\ pc = "tmux_launch_enter"
    /\ SendChecked(Enter, "trust_wait")
    /\ UNCHANGED <<session, killed, deadline, now, wait, line_idx, polls, slept>>

\* line 197: deadline = time.time() + timeout_s
wait_deadline(t, timeout) == t + timeout

\* a loop that admits an iteration at the deadline itself
loop_continues_at_deadline(t, dl) == t <= dl

\* line 198: while time.time() < deadline
loop_continues(t, dl) == t < dl

TimeoutOf(call) == IF call = 1 THEN TrustTimeout ELSE RetryTimeout

\* lines 254 and 257 call tmux_wait_for_text; line 197 fixes the deadline
TmuxWaitEnter ==
    /\ pc \in {"trust_wait", "trust_rewait"}
    /\ \E t \in 0..MaxStart :
         /\ wait' = [call |-> IF pc = "trust_wait" THEN 1 ELSE 2,
                     entry |-> t, result |-> FALSE]
         /\ now' = t
         /\ deadline' = wait_deadline(t, TimeoutOf(wait'.call))
    /\ pc' = "wait_loop"
    /\ UNCHANGED <<session, killed, keys, line_idx, sent, polls, slept>>
    /\ UNCHANGED <<mainVars, syncVars, ioVars, bgVars>>

\* lines 198-204: the loop test, then one capture, which takes time and
\* shows the pattern, does not show it, or fails
TmuxWaitIter ==
    /\ pc = "wait_loop"
    /\ IF loop_continues(now, deadline)
       THEN \E d \in 0..MaxCapture, seen \in {"match", "no match", "error"} :
              /\ now' = now + d
              /\ IF seen = "match"
                 THEN /\ wait' = [wait EXCEPT !.result = TRUE]
                      /\ pc' = "wait_done"
                 ELSE /\ pc' = "wait_sleep"
                      /\ UNCHANGED wait
       ELSE /\ pc' = "wait_done"
            /\ UNCHANGED <<now, wait>>
    /\ UNCHANGED <<session, killed, keys, deadline, line_idx, sent, polls, slept>>
    /\ UNCHANGED <<mainVars, syncVars, ioVars, bgVars>>

\* line 205: time.sleep(poll_s)
TmuxWaitSleep ==
    /\ pc = "wait_sleep"
    /\ now' = now + PollTicks
    /\ pc' = "wait_loop"
    /\ UNCHANGED <<session, killed, keys, deadline, wait, line_idx, sent, polls, slept>>
    /\ UNCHANGED <<mainVars, syncVars, ioVars, bgVars>>

\* a caller for which an expired wait is an error
TmuxWaitReturnRaising ==
    /\ pc = "wait_done"
    /\ IF wait.result
       THEN /\ pc' = IF wait.call = 1 THEN "trust_enter" ELSE "trust_one"
            /\ UNCHANGED ioVars
       ELSE Raise("TimeoutError")
    /\ now' = 0
    /\ deadline' = 0
    /\ polls' = Append(polls, wait.result)
    /\ UNCHANGED <<session, killed, keys, wait, line_idx, sent, slept>>
    /\ UNCHANGED <<mainVars, syncVars, bgVars>>

\* a caller that confirms although the first wait found nothing
after_wait_confirming(call, result) ==
    IF call = 1 THEN "trust_enter"
    ELSE (IF result THEN "trust_one" ELSE "send_prompt")

\* a caller that sends '1' whatever the second wait found
after_wait_second_ignored(call, result) ==
    IF call = 1
    THEN (IF result THEN "trust_enter" ELSE "send_prompt")
    ELSE "trust_one"

\* lines 254 and 257: where the caller goes on the result of a wait
after_wait(call, result) ==
    IF call = 1
    THEN (IF result THEN "trust_enter" ELSE "send_prompt")
    ELSE (IF result THEN "trust_one" ELSE "send_prompt")

\* tmux_wait_for_text returns to its caller
TmuxWaitReturn ==
    /\ pc = "wait_done"
    /\ pc' = after_wait(wait.call, wait.result)
    /\ now' = 0
    /\ deadline' = 0
    /\ polls' = Append(polls, wait.result)
    /\ UNCHANGED <<session, killed, keys, wait, line_idx, sent, slept>>
    /\ UNCHANGED <<mainVars, syncVars, ioVars, bgVars>>

\* lines 255-256: Enter, then 0.8 s of sleep before the second poll
TrustEnter ==
    /\ pc = "trust_enter"
    /\ SendUnchecked(Enter, "trust_rewait")
    /\ UNCHANGED <<session, killed, deadline, now, wait, line_idx, polls, slept>>

\* line 258
TrustOne ==
    /\ pc = "trust_one"
    /\ SendUnchecked(Key("key", W("1")), "trust_one_enter")
    /\ UNCHANGED <<session, killed, deadline, now, wait, line_idx, polls, slept>>

\* line 259
TrustOneEnter ==
    /\ pc = "trust_one_enter"
    /\ SendUnchecked(Enter, "send_prompt")
    /\ UNCHANGED <<session, killed, deadline, now, wait, line_idx, polls, slept>>

\* lines 262-266: the next non-blank line, typed literally
SendPromptLine ==
    /\ pc = "send_prompt"
    /\ IF line_idx <= Len(prompt_lines(args.prompt))
       THEN SendChecked(Key("literal", prompt_lines(args.prompt)[line_idx]),
                        "send_enter")
       ELSE /\ pc' = "report"
            /\ UNCHANGED <<keys, sent, mainVars, syncVars, ioVars, bgVars>>
    /\ UNCHANGED <<session, killed, deadline, now, wait, line_idx, polls, slept>>

\* line 267: the Enter after a prompt line
SendPromptEnter ==
    /\ pc = "send_enter"
    /\ SendChecked(Enter, "send_delay")
    /\ UNCHANGED <<session, killed, deadline, now, wait, line_idx, polls, slept>>

\* line 268: the delay between lines, then the next line of the loop
SendPromptDelay ==
    /\ pc = "send_delay"
    /\ slept' = slept + 1
    /\ line_idx' = line_idx + 1
    /\ pc' = "send_prompt"
    /\ UNCHANGED <<session, killed, keys, deadline, now, wait, sent, polls>>
    /\ UNCHANGED <<mainVars, syncVars, ioVars, bgVars>>

Said(what) == [what |-> what, pid |-> 0, log |-> NoFile]

\* lines 270-275: the report, then the snapshot or the return of 0
TmuxReport ==
    /\ pc = "report"
    /\ out' = Append(out, Said("Interactive Claude Code started"))
    /\ IF args.interactive_wait_s > 0
       THEN /\ pc' = "snapshot"
            /\ UNCHANGED rc
       ELSE /\ pc' = "notify"
            /\ rc' = 0
    /\ UNCHANGED <<exit_code, err, notifications>>
    /\ UNCHANGED <<mainVars, syncVars, bgVars, tmuxVars>>

\* lines 276-284: sleep, capture and print; a failed capture prints nothing
TmuxSnapshot ==
    /\ pc = "snapshot"
    /\ \E captured \in BOOLEAN :
         out' = IF captured THEN Append(out, Said("tmux snapshot")) ELSE out
    /\ rc' = 0
    /\ pc' = "notify"
    /\ UNCHANGED <<exit_code, err, notifications>>
    /\ UNCHANGED <<mainVars, syncVars, bgVars, tmuxVars>>

(* --------------------------- specifications --------------------------- *)

Launcher ==
    \/ ResolveBinary \/ DetermineMode \/ Dispatch \/ Notify
    \/ RunWithPty \/ PtyReturn \/ RunCapture \/ CaptureReturn
    \/ BgMakedirs \/ BgOpen \/ BgHeader \/ BgPopen \/ BgPrint \/ BgWatcher
    \/ TmuxWhich \/ TmuxKillSession \/ TmuxNewSession
    \/ TmuxLaunch \/ TmuxLaunchEnter
    \/ TmuxWaitEnter \/ TmuxWaitIter \/ TmuxWaitSleep \/ TmuxWaitReturn
    \/ TrustEnter \/ TrustOne \/ TrustOneEnter
    \/ SendPromptLine \/ SendPromptEnter \/ SendPromptDelay
    \/ TmuxReport \/ TmuxSnapshot

Children == \E p \in DOMAIN procs : ProcWrite(p) \/ ProcExit(p)

Watchers ==
    \E w \in DOMAIN watchers :
        WatcherPoll(w) \/ WatcherSleep(w) \/ WatcherNotify(w)

Detached == Children \/ Watchers

Next == Launcher \/ Detached

\* one invocation of the launcher, with what it leaves running
Spec == Init /\ [][Next]_vars

\* the command lines of one background launch
LaunchArgs ==
    { a \in ArgsOver(SamplePrompts) :
        /\ a.background
        /\ determine_mode(a.mode, a.prompt) # "interactive"
        /\ ~a.clipboard
        /\ a.interactive_wait_s = 0 }

\* the command lines of two launches in a row: a short command and a long
\* one, without a watcher
BgArgs ==
    { a \in ArgsOver({None, <<"a">>}) :
        /\ a.background
        /\ a.mode = "auto"
        /\ ~a.notify
        /\ ~a.clipboard
        /\ a.interactive_wait_s = 0 }

\* the command lines of the interactive specification
TmuxArgs ==
    { a \in ArgsOver(SamplePrompts) :
        /\ a.mode = "interactive" \/ a.mode = "auto"
        /\ determine_mode(a.mode, a.prompt) = "interactive"
        /\ ~a.background
        /\ ~a.clipboard }

\* a second invocation of the launcher, once the first has ended: the log
\* directory, the children and the watchers are as the first left them
SecondLaunch ==
    /\ pc \in {"exit", "crashed"}
    /\ invocations = 1
    /\ invocations' = 2
    /\ \E a \in BgArgs : args' = a
    /\ pc' = "resolve"
    /\ mode' = "unset"
    /\ claude_bin' = GivenClaude
    /\ lookup' = [claude |-> "?", tmux |-> "?"]
    /\ executor' = "none"
    /\ ran' = {}
    /\ cmd' = <<>>
    /\ full_cmd' = <<>>
    /\ script_bin' = Unknown
    /\ rc' = -1
    /\ exit_code' = -1
    /\ err' = <<>>
    /\ out' = <<>>
    /\ log_file' = NoFile
    /\ UNCHANGED <<child, child_rc, clipboard, notifications, tmuxVars>>
    /\ UNCHANGED <<log_dir, files, procs, watchers, clock, opened>>

InitBg == EnvironmentStart /\ \E a \in BgArgs : InvocationStart(a)

NextBg ==
    \/ ResolveBinary \/ DetermineMode \/ Dispatch
    \/ BgMakedirs \/ BgOpen \/ BgHeader \/ BgPopen \/ BgPrint \/ BgWatcher
    \/ Children
    \/ SecondLaunch

\* two background launches, one after the other, into one log directory
SpecBg == InitBg /\ [][NextBg]_vars

BgLauncher ==
    \/ ResolveBinary \/ DetermineMode \/ Dispatch
    \/ BgMakedirs \/ BgOpen \/ BgHeader \/ BgPopen \/ BgPrint \/ BgWatcher

InitLaunch == EnvironmentStart /\ \E a \in LaunchArgs : InvocationStart(a)

NextLaunch == BgLauncher \/ Detached

\* one background launch, with the child and the watcher it leaves running
SpecLaunch == InitLaunch /\ [][NextLaunch]_vars

\* the launcher keeps running while it can; the child and the watcher are
\* other processes, which may stop at any time or never end
FairLaunch == SpecLaunch /\ WF_vars(BgLauncher)

\* the watcher is a process of its own, which the system keeps scheduling
FairWatch == SpecLaunch /\ WF_vars(BgLauncher) /\ WF_vars(Watchers)

InitTmux == EnvironmentStart /\ \E a \in TmuxArgs : InvocationStart(a)

NextTmux ==
    \/ ResolveBinary \/ DetermineMode \/ Dispatch \/ Notify
    \/ TmuxWhich \/ TmuxKillSession \/ TmuxNewSession
    \/ TmuxLaunch \/ TmuxLaunchEnter
    \/ TmuxWaitEnter \/ TmuxWaitIter \/ TmuxWaitSleep \/ TmuxWaitReturn
    \/ TrustEnter \/ TrustOne \/ TrustOneEnter
    \/ SendPromptLine \/ SendPromptEnter \/ SendPromptDelay
    \/ TmuxReport \/ TmuxSnapshot

\* one interactive invocation
SpecTmux == InitTmux /\ [][NextTmux]_vars

\* the controller is one sequential process that keeps running
FairTmux == SpecTmux /\ WF_vars(NextTmux)

\* every prompt up to MaxPromptLen through binary resolution, mode
\* selection and dispatch
Prompts == Strings(MaxPromptLen) \cup {None}

InitMode == EnvironmentStart /\ \E a \in ArgsOver(Prompts) : InvocationStart(a)

NextMode == ResolveBinary \/ DetermineMode \/ Dispatch

SpecMode == InitMode /\ [][NextMode]_vars

(* ------------------------------ properties ---------------------------- *)

Range(seq) == {seq[i] : i \in DOMAIN seq}

Ended == pc \in {"exit", "crashed"}

\* some line of p, leading blanks aside, begins with "/": position j holds
\* a slash and only blanks separate it from the start of its line
HasSlashLine(p) ==
    /\ p # None
    /\ \E j \in 1..Len(p) :
         /\ p[j] = "/"
         /\ \E i \in 1..j :
              /\ i = 1 \/ p[i - 1] = NL
              /\ \A k \in i..(j - 1) : p[k] = " "

ResolvedInteractive ==
    \/ args.mode = "interactive"
    \/ args.mode = "auto" /\ HasSlashLine(args.prompt)

SyncExecutors == {"pty", "capture"}

\* C1: with the mode flag auto, the mode resolves to interactive exactly
\* when some line of the prompt, trimmed, begins with "/"; otherwise the
\* headless branch is taken (the local "mode" then still reads "auto").
C1_AutoResolvesBySlashLine ==
    (args.mode = "auto" /\ mode # "unset") =>
        /\ (mode = "interactive") <=> HasSlashLine(args.prompt)
        /\ mode \in {"interactive", "auto"}
        /\ executor # "none" =>
              ((executor = "tmux") <=> HasSlashLine(args.prompt))

C1_Witness ==
    /\ args.mode = "auto"
    /\ args.prompt = <<NL, " ", "/">>
    /\ mode = "interactive"
    /\ executor = "tmux"

\* C2: an explicit flag overrides the heuristic: with the flag headless the
\* tmux controller is never entered, slash lines or not; with the flag
\* interactive the dispatch goes to the tmux controller, and an invocation
\* that found the claude binary has entered it when it ends.
C2_ExplicitFlagOverrides ==
    /\ args.mode = "headless" => (executor # "tmux" /\ "tmux" \notin ran)
    /\ (args.mode = "interactive" /\ executor # "none") => executor = "tmux"
    /\ (args.mode = "interactive" /\ Ended /\ lookup.claude # "missing") =>
          "tmux" \in ran

C2_Witness ==
    /\ args.mode = "headless"
    /\ HasSlashLine(args.prompt)
    /\ pc = "exit"
    /\ ran \cap SyncExecutors # {}

\* C3: once the claude binary is located exactly one executor is
\* dispatched: the background launcher iff the background flag is set and
\* the resolved mode is not interactive, the tmux controller iff the
\* resolved mode is interactive, otherwise a synchronous run under script.
C3_ExactlyOneExecutor ==
    /\ executor # "none" =>
          /\ (executor = "background") <=>
                (args.background /\ ~ResolvedInteractive)
          /\ (executor = "tmux") <=> ResolvedInteractive
          /\ (executor \in SyncExecutors) <=>
                (~args.background /\ ~ResolvedInteractive)
          /\ (executor = "capture") => args.clipboard
    /\ ran \subseteq {executor}
    /\ (Ended /\ lookup.claude # "missing") => ran = {executor}

C3_Witness ==
    /\ args.background
    /\ args.mode = "auto"
    /\ HasSlashLine(args.prompt)
    /\ pc = "exit"
    /\ ran = {"tmux"}

\* C4: a missing required binary ends the invocation with exit code 2 and
\* a diagnostic on stderr: the claude binary in every mode, tmux when the
\* resolved mode is interactive.
C4_MissingBinaryExits2 ==
    /\ lookup.claude = "missing" =>
          /\ pc = "exit"
          /\ exit_code = ExitPrecondition
          /\ "Error: claude binary not found" \in Range(err)
    /\ lookup.tmux = "missing" =>
          /\ pc \in {"notify", "exit"}
          /\ rc = ExitPrecondition
          /\ "Error: tmux not found" \in Range(err)
          /\ pc = "exit" => exit_code = ExitPrecondition
    /\ (ResolvedInteractive /\ Ended /\ lookup.claude # "missing") =>
          lookup.tmux # "?"

C4_Witness ==
    /\ lookup.tmux = "missing"
    /\ args.notify
    /\ pc = "exit"
    /\ exit_code = ExitPrecondition

\* C5: a synchronous run whose child ran to its end exits with the child's
\* exit code, whatever that code and whatever the notify and clipboard
\* options are.
C5_ExitCodeIsChildExitCode ==
    (executor \in SyncExecutors /\ child = "exited") =>
        /\ pc \in {"notify", "exit"}
        /\ rc = child_rc
        /\ pc = "exit" => exit_code = child_rc

C5_Witness ==
    /\ executor = "capture"
    /\ args.notify
    /\ child_rc = 2
    /\ pc = "exit"
    /\ exit_code = 2

\* C6: every synchronous run executes the command under script if the
\* helper is on the PATH and directly otherwise; the absence of the helper
\* never makes the run fail, the clipboard capture included.
C6_HelperAbsenceNeverFails ==
    (executor \in SyncExecutors) =>
        /\ child # "none" =>
              full_cmd = (IF script_bin = ScriptPath
                          THEN wrap_with_script(ScriptPath, cmd) ELSE cmd)
        /\ "FileNotFoundError: script" \notin Range(err)

Reported ==
    \E i \in DOMAIN out :
        /\ out[i].what = "Background process started"
        /\ out[i].pid = MyPid
        /\ out[i].log = procs[MyPid].file

\* C7: once the background child is created the launcher reports its pid
\* and log path and leaves run_background (returning 0, or with the error
\* of a watcher that cannot be started), whether the child ends early,
\* late or never: no step of the launcher waits for the child.
C7_LauncherNeverBlocks ==
    (pc = "bg_print") ~> (Reported /\ Ended)

C7_Witness ==
    /\ executor = "background"
    /\ args.notify
    /\ Reported
    /\ pc = "exit"
    /\ exit_code = 0
    /\ procs[MyPid].alive
    /\ procs[MyPid].written = 0

\* the three header lines of one launch and the blank line open the file
BeginsWithHeader(f, inv) ==
    \E n \in 1..Len(f) :
        /\ Len(f) >= n + 3
        /\ f[1] = Cell("# Command:", inv)
        /\ \A i \in 2..n : f[i] = Cell("word", inv)
        /\ f[n + 1] = Cell("# Started:", inv)
        /\ f[n + 2] = Cell("# CWD:", inv)
        /\ f[n + 3] = Cell("", inv)

HeaderWritten(k) == opened[k].inv < invocations \/ pc # "bg_header"

\* C8: a background invocation opens at most one log file, named from the
\* prefix and the launch timestamp to the second; two invocations, one
\* after the other, whose timestamps differ leave two distinct log files,
\* each beginning with the three header lines of its invocation.
C8_DistinctTimestampsDistinctLogs ==
    /\ \A i \in 1..invocations :
          Cardinality({k \in DOMAIN opened : opened[k].inv = i}) <= 1
    /\ DOMAIN files = {opened[k].name : k \in DOMAIN opened}
    /\ \A k \in DOMAIN opened :
          /\ opened[k].name[1] = "claude-"
          /\ opened[k].name[5] = opened[k].ts % 60
    /\ \A j, k \in DOMAIN opened :
          (opened[j].ts # opened[k].ts) =>
              /\ opened[j].name # opened[k].name
              /\ HeaderWritten(k) =>
                    BeginsWithHeader(files[opened[k].name], opened[k].inv)

C8_Witness ==
    /\ invocations = 2
    /\ pc = "exit"
    /\ Len(opened) = 2
    /\ opened[1].ts = 59
    /\ opened[2].ts = 60
    /\ Cardinality(DOMAIN files) = 2
    /\ Len(procs) = 2
    /\ procs[1].written = MaxOut

WaitElapsed == now - wait.entry

NotFoundReturned == pc = "wait_done" /\ ~wait.result

\* C9 as stated: for a pattern no capture shows, tmux_wait_for_text returns
\* "not found" no earlier than its timeout after loop entry and no later
\* than the timeout plus one poll interval.
C9_ReturnsWithinOnePoll ==
    NotFoundReturned =>
        /\ WaitElapsed >= TimeoutOf(wait.call)
        /\ WaitElapsed <= TimeoutOf(wait.call) + PollTicks

\* C9 amended: "not found" is returned no earlier than the timeout after
\* loop entry, and the last iteration begins before the deadline, so the
\* return comes earlier than the timeout plus one poll interval plus the
\* duration of one capture; the deadline is the entry time plus the
\* timeout during the whole loop, however many iterations run.
C9_ReturnsWithinOneIteration ==
    /\ NotFoundReturned =>
          /\ WaitElapsed >= TimeoutOf(wait.call)
          /\ WaitElapsed < TimeoutOf(wait.call) + PollTicks + MaxCapture
    /\ pc \in {"wait_loop", "wait_sleep", "wait_done"} =>
          deadline = wait.entry + TimeoutOf(wait.call)

C9_Witness ==
    /\ NotFoundReturned
    /\ wait.call = 1
    /\ wait.entry = MaxStart
    /\ WaitElapsed = TrustTimeout + PollTicks + MaxCapture - 1

ReportedSession ==
    \E i \in DOMAIN out : out[i].what = "Interactive Claude Code started"

SendKeysFailed ==
    err # <<>> /\ err[Len(err)] = "CalledProcessError: tmux send-keys"

IsPrefix(a, b) == Len(a) <= Len(b) /\ a = SubSeq(b, 1, Len(a))

\* the positions where a line of p starts
LineStarts(p) == {i \in 1..Len(p) : i = 1 \/ p[i - 1] = NL}

\* the position where the line of p that starts at s ends
LineEnd(p, s) ==
    IF \E j \in s..Len(p) : p[j] = NL
    THEN (CHOOSE j \in s..Len(p) :
             p[j] = NL /\ \A k \in s..(j - 1) : p[k] # NL) - 1
    ELSE Len(p)

NonBlankStarts(p) ==
    {s \in LineStarts(p) : \E k \in s..LineEnd(p, s) : p[k] \notin {" ", NL}}

\* the lines of p that hold a character other than a blank, in their order
NonBlankLines(p) ==
    IF p = None THEN <<>>
    ELSE [n \in 1..Cardinality(NonBlankStarts(p)) |->
            LET s == CHOOSE x \in NonBlankStarts(p) :
                        Cardinality({y \in NonBlankStarts(p) : y < x}) = n - 1
            IN SubSeq(p, s, LineEnd(p, s))]

\* each line typed literally, each followed by one Enter
PromptKeys(lines) ==
    [i \in 1..(2 * Len(lines)) |->
        IF i % 2 = 1 THEN Key("literal", lines[(i + 1) \div 2]) ELSE Enter]

LaunchKeys == <<Key("literal", launch_text), Enter>>

Literals(ks) == {i \in 1..Len(ks) : ks[i].kind = "literal"}

\* the keystrokes from the second literal text on: the launch line is the
\* first literal text, the confirmations are keys and not literal texts
PromptPart(ks) ==
    IF Cardinality(Literals(ks)) < 2 THEN <<>>
    ELSE SubSeq(ks,
                CHOOSE i \in Literals(ks) :
                    Cardinality({j \in Literals(ks) : j < i}) = 1,
                Len(ks))

TrustSkipped == polls = <<FALSE>>

SendPromptDone == session = "fresh" /\ pc \in {"report", "snapshot", "notify", "exit"}

\* C12: the keystrokes SendPrompt injects are, for each non-blank line of
\* the prompt in its order, the line typed literally and one Enter; blank
\* lines, an empty prompt and an absent prompt give none; before the line
\* after the k-th is typed, k inter-line delays have elapsed.
C12_PromptKeysExact ==
    LET lines == NonBlankLines(args.prompt)
        part  == PromptPart(keys)
    IN /\ IsPrefix(part, PromptKeys(lines))
       /\ Cardinality(Literals(part)) <= slept + 1
       /\ pc = "send_prompt" => part = PromptKeys(SubSeq(lines, 1, slept))
       /\ SendPromptDone => (part = PromptKeys(lines) /\ slept = Len(lines))

C12_Witness ==
    /\ pc = "exit"
    /\ args.prompt = <<"a", NL, " ", NL, "/">>
    /\ polls = <<TRUE, FALSE>>
    /\ PromptPart(keys) =
          <<Key("literal", <<"a">>), Enter, Key("literal", <<"/">>), Enter>>
    /\ slept = 2

(* -------------------------- session properties ------------------------ *)

InteractiveSuccess == executor = "tmux" /\ pc = "exit" /\ exit_code = 0

\* C13: after an interactive invocation that returns successfully a session
\* of the configured name exists that this invocation created, whether or
\* not one existed before: kill-session ran before the creation and left no
\* session of the name, and once the session is created no step of the
\* controller destroys it.
C13_FreshSessionSurvives ==
    /\ [](InteractiveSuccess => session = "fresh")
    /\ [](session = "fresh" => killed \in {"killed", "no such session"})
    /\ [][session = "fresh" => session' = "fresh"]_vars

C13_Witness ==
    /\ InteractiveSuccess
    /\ session = "fresh"
    /\ killed = "killed"
    /\ args.interactive_wait_s = 1
    /\ \E i \in DOMAIN out : out[i].what = "tmux snapshot"

(* ------------------------ best-effort side effects -------------------- *)

\* the background child of this invocation exists
BgChildCreated ==
    /\ executor = "background"
    /\ \E p \in DOMAIN procs : procs[p].inv = invocations

\* C14: the failure of a best-effort side effect is swallowed: a watcher
\* that cannot be started, a notification that is not delivered, a clipboard
\* copy that fails and a kill-session that finds nothing to kill or fails
\* neither end the run with an error nor change its exit code.
C14_BestEffortSwallowed ==
    /\ "OSError: watcher not started" \notin Range(err)
    /\ (BgChildCreated /\ Ended) => (pc = "exit" /\ exit_code = 0)
    /\ (executor \in SyncExecutors /\ child = "exited" /\ Ended) =>
          (pc = "exit" /\ exit_code = child_rc)
    /\ (executor = "tmux" /\ pc = "crashed") =>
          err[Len(err)] \in {"CalledProcessError: tmux new",
                             "CalledProcessError: tmux send-keys"}

(* --------------------------- watcher properties ----------------------- *)

Watched(w) == procs[watchers[w].pid]

\* C15: with notification requested, the watcher triggers the notification
\* exactly once, never while the watched child is alive, and eventually
\* once the child is no longer alive; the launcher has returned by the time
\* the watcher runs and waits for nothing.
C15_WatcherNotifiesOnce ==
    /\ [](\A w \in DOMAIN watchers :
            /\ watchers[w].fired <= 1
            /\ watchers[w].fired = 1 <=> watchers[w].state = "done"
            /\ watchers[w].state \in {"notifying", "done"} =>
                  ~Watched(w).alive
            /\ pc = "exit" /\ args.notify)
    /\ [](Len(notifications) <= Len(watchers))
    /\ [][\A w \in DOMAIN watchers :
            watchers[w].fired = 1 => watchers'[w].fired = 1]_vars
    /\ (watchers # <<>> /\ ~Watched(1).alive)
          ~> (watchers # <<>> /\ watchers[1].fired = 1)

C15_Witness ==
    /\ pc = "exit"
    /\ Len(watchers) = 1
    /\ watchers[1].fired = 1
    /\ notifications = <<"Background task finished">>
    /\ procs[1].status = 2
    /\ procs[1].written = MaxOut

(* ------------------------ confirmation properties --------------------- *)

One == Key("key", W("1"))

\* the send-keys commands between the launch and the prompt lines
Confirmations(s) == SubSeq(s, 3, Len(s) - Len(PromptPart(s)))

TrustConcluded ==
    /\ session = "fresh"
    /\ pc \in {"send_prompt", "send_enter", "send_delay", "report",
               "snapshot", "notify", "exit"}

\* C16: '1' and Enter are sent if and only if the confirmation text was
\* seen by the first poll, after which one Enter was sent, and seen again by
\* the re-poll; an invocation sends at most one Enter, '1', Enter sequence.
C16_SecondConfirmationIffSeenTwice ==
    LET conf == Confirmations(sent)
    IN /\ IsPrefix(conf, <<Enter, One, Enter>>)
       /\ Len(conf) >= 1 => (polls # <<>> /\ polls[1])
       /\ Len(conf) >= 2 => polls = <<TRUE, TRUE>>
       /\ TrustConcluded =>
             /\ polls \in {<<FALSE>>, <<TRUE, FALSE>>, <<TRUE, TRUE>>}
             /\ conf = <<Enter, One, Enter>> <=> polls = <<TRUE, TRUE>>
             /\ conf = <<Enter>> <=> polls = <<TRUE, FALSE>>
             /\ conf = <<>> <=> polls = <<FALSE>>

C16_Witness ==
    /\ pc = "exit"
    /\ polls = <<TRUE, TRUE>>
    /\ Confirmations(sent) = <<Enter, One, Enter>>
    /\ args.prompt = <<"/", "a">>
    /\ keys = sent

(* ----------------------------- log properties ------------------------- *)

ChildOutput(p) == [i \in 1..procs[p].written |-> Cell("output", procs[p].inv)]

\* C17: the header block is in the log file, flushed, when the child is
\* created, and the child's output follows it: the file is the header and
\* then what the child has written, at every moment.
C17_HeaderBeforeChild ==
    /\ [][Len(procs') > Len(procs) =>
            files[log_file] = header(invocations, cmd)]_vars
    /\ [](\A p \in DOMAIN procs :
            files[procs[p].file] =
                header(procs[p].inv, cmd) \o ChildOutput(p))

C17_Witness ==
    /\ Len(procs) = 1
    /\ ~procs[1].alive
    /\ procs[1].written = MaxOut
    /\ Len(cmd) = 3
    /\ Len(files[log_file]) = 7 + MaxOut
    /\ files[log_file][7].kind = ""
    /\ files[log_file][8].kind = "output"

(* ---------------------------- order properties ------------------------ *)

Printed(what) == {i \in DOMAIN out : out[i].what = what}

\* the TrustPrompt step is over: one wait that found nothing, or two waits
TrustOver ==
    /\ polls # <<>>
    /\ polls[1] => Len(polls) = 2
    /\ pc \notin {"wait_loop", "wait_sleep", "wait_done"}

\* C18: the steps of the controller come in the order destroy, create,
\* launch line, Enter, TrustPrompt, prompt lines, report, snapshot: nothing
\* is sent unless the session was created after the destroy, the first two
\* commands are the launch line and its Enter, no prompt line is sent before
\* both were delivered and TrustPrompt is over, the report comes after all
\* prompt lines, and the snapshot after the report.
C18_StepsInOrder ==
    /\ session = "fresh" => killed # "n/a"
    /\ sent # <<>> => session = "fresh"
    /\ \A i \in DOMAIN sent : i <= 2 => sent[i] = LaunchKeys[i]
    /\ PromptPart(sent) # <<>> =>
          /\ IsPrefix(LaunchKeys, keys)
          /\ TrustOver
    /\ ReportedSession =>
          /\ TrustOver
          /\ PromptPart(keys) = PromptKeys(NonBlankLines(args.prompt))
    /\ \A i \in Printed("tmux snapshot") :
          \E j \in Printed("Interactive Claude Code started") : j < i

C18_Witness ==
    /\ pc = "exit"
    /\ killed = "no such session"
    /\ polls = <<FALSE>>
    /\ args.prompt = <<"a">>
    /\ sent = LaunchKeys \o <<Key("literal", <<"a">>), Enter>>
    /\ Printed("tmux snapshot") = {2}

(* ------------------------- precondition failures ---------------------- *)

PreconditionFailure ==
    /\ pc = "exit"
    /\ exit_code = ExitPrecondition
    /\ lookup.claude = "missing" \/ lookup.tmux = "missing"

\* no child, no log directory or file, nothing done to a tmux session
NothingLaunched ==
    /\ procs = <<>> /\ watchers = <<>> /\ child = "none"
    /\ ~log_dir /\ files = <<>>
    /\ session = "unknown" /\ killed = "n/a" /\ sent = <<>> /\ keys = <<>>
    /\ clipboard = <<>>

\* C19 as stated: an invocation that ends with a precondition failure has
\* had no side effect on the environment.
C19_NoSideEffectOnExit2 ==
    PreconditionFailure => (NothingLaunched /\ notifications = <<>>)

\* C19 amended: an invocation that ends with a precondition failure has
\* launched no child, created no log directory or file and destroyed,
\* created or sent keystrokes to no session; its one possible side effect is
\* the desktop notification of the failure that --notify asks for when tmux
\* is the missing binary.
C19_NoSideEffectButNotification ==
    PreconditionFailure =>
        /\ NothingLaunched
        /\ notifications # <<>> =>
              /\ args.notify
              /\ lookup.tmux = "missing"
              /\ notifications = <<"Headless task failed">>

C19_Witness ==
    /\ PreconditionFailure
    /\ lookup.tmux = "missing"
    /\ notifications = <<"Headless task failed">>
    /\ NothingLaunched

(* --------------------------- background exit -------------------------- *)

\* C20: a background invocation whose child was created returns exit code
\* 0 whatever the child does later; the launcher never reads the child's
\* exit code and never runs main's notification step.
C20_BackgroundReturnsZero ==
    BgChildCreated =>
        /\ Ended => (pc = "exit" /\ exit_code = 0)
        /\ rc = -1 /\ child_rc = -1
        /\ pc # "notify"
        /\ \A i \in DOMAIN notifications :
              notifications[i] = "Background task finished"

====
